---- MODULE Spec2Model ----
(***************************************************************************)
(* DS.Adapter (packages/ember-data/lib/adapters/adapter.js): the commit    *)
(* dispatch, the grouping by record type, the default batched methods,     *)
(* the default findMany and materialize.                                   *)
(*                                                                         *)
(* A call made by the adapter is logged as a record                        *)
(*   [fn, store, type, record, records]                                    *)
(* where a field that the call does not have is None (or <<>>).  The log   *)
(* is the observable behaviour of the adapter: the base class does no I/O  *)
(* itself, it only calls its own overridable methods and the store.        *)
(***************************************************************************)
EXTENDS Integers, Sequences, FiniteSets, TLC

\* ------------------------------------------------------------------ bounds
NRec == 3         \* records of the universe
NTypes == 2       \* record types (constructors)
MaxCommit == 3    \* records in one commitDetails (created + updated + deleted)
MaxLen == 4       \* length of an enumerable / of a records or ids array
NFields == 2      \* field names that a type may declare or a payload may carry
NValues == 1      \* raw values of a payload field

None == 0         \* an argument the call does not have / JavaScript undefined
NoStore == "none" \* the store argument of a call that has none

Records == 1..NRec
Types == 1..NTypes
Fields == 1..NFields
Values == 1..NValues

\* The one store and the one relationships object handed to the adapter.
store == "store"
relationships == "relationships"

\* item.constructor / record.constructor: the type of a record, fixed for its
\* lifetime.
constructorOf(record) == ((record - 1) % NTypes) + 1

Range(s) == {s[i] : i \in 1..Len(s)}

\* What a method returned: a value, or undefined (no return statement).
Returned(value) == [defined |-> TRUE, value |-> value]
Undefined == [defined |-> FALSE, value |-> None]

\* Sequences without repetition over S, of length at most n (an OrderedSet in
\* iteration order).
RECURSIVE OrderedSets(_, _)
OrderedSets(S, n) ==
  IF n = 0 THEN {<<>>}
  ELSE LET shorter == OrderedSets(S, n - 1)
       IN shorter \cup UNION {{Append(s, x) : x \in S \ Range(s)} : s \in shorter}

\* ------------------------------------------------------------------- state
VARIABLES
  pc,             \* "idle" before the operation, then the name of the operation run
  commitDetails,  \* [created, updated, deleted]: three disjoint ordered sets
  isDirty,        \* record.get('isDirty'), per record
  hook,           \* what the adapter's shouldCommit hook answers, per record
  calls,          \* the log of calls made by the operation, in order
  completed,      \* indices (into calls) of the requests that have completed,
                  \* in completion order
  args,           \* the arguments of a directly invoked method
  ret,            \* what the directly invoked method returned
  schema,         \* the record type's declaration of each field name
  hash,           \* the payload last materialized
  recordState,    \* the record being materialized: [id, data]
  once,           \* the record as it was after hash was materialized once
  times           \* how often hash has been materialized in a row (capped at 2)

vars == <<pc, commitDetails, isDirty, hook, calls, completed, args, ret,
          schema, hash, recordState, once, times>>

commitVars == <<commitDetails, isDirty, hook, completed>>
materializeVars == <<schema, hash, recordState, once, times>>

Call(fn, st, type, record, records) ==
  [fn |-> fn, store |-> st, type |-> type, record |-> record, records |-> records]

\* ------------------------------------------------ single-record primitives
\* createRecord / updateRecord / deleteRecord are supplied by the concrete
\* adapter; each hands the request to asynchronous I/O and returns.
createRecord(st, type, record) == <<Call("createRecord", st, type, record, <<>>)>>
updateRecord(st, type, record) == <<Call("updateRecord", st, type, record, <<>>)>>
deleteRecord(st, type, record) == <<Call("deleteRecord", st, type, record, <<>>)>>

\* ------------------------------------------------- default batched methods
RECURSIVE createRecordsFrom(_, _, _, _)
createRecordsFrom(st, type, records, i) ==
  IF i > Len(records) THEN <<>>
  ELSE createRecord(st, type, records[i]) \o createRecordsFrom(st, type, records, i + 1)

\* As createRecords, with the loop starting one element late.
createRecords_SkipsFirst(st, type, records) ==
  <<Call("createRecords", st, type, None, records)>> \o createRecordsFrom(st, type, records, 2)

createRecords(st, type, records) ==
  <<Call("createRecords", st, type, None, records)>> \o createRecordsFrom(st, type, records, 1)

RECURSIVE updateRecordsFrom(_, _, _, _)
updateRecordsFrom(st, type, records, i) ==
  IF i > Len(records) THEN <<>>
  ELSE updateRecord(st, type, records[i]) \o updateRecordsFrom(st, type, records, i + 1)

updateRecords(st, type, records) ==
  <<Call("updateRecords", st, type, None, records)>> \o updateRecordsFrom(st, type, records, 1)

RECURSIVE deleteRecordsFrom(_, _, _, _)
deleteRecordsFrom(st, type, records, i) ==
  IF i > Len(records) THEN <<>>
  ELSE deleteRecord(st, type, records[i]) \o deleteRecordsFrom(st, type, records, i + 1)

deleteRecords(st, type, records) ==
  <<Call("deleteRecords", st, type, None, records)>> \o deleteRecordsFrom(st, type, records, 1)

\* ------------------------------------------------------------- groupByType
\* Ember.MapWithDefault: an insertion-ordered map, here a sequence of
\* [key, value] entries; get(key) inserts the default value (an empty array)
\* when the key is absent.
mapHas(map, key) == \E i \in 1..Len(map) : map[i].key = key

mapGet(map, key) ==
  IF mapHas(map, key) THEN map ELSE Append(map, [key |-> key, value |-> <<>>])

\* As pushObject, adding the item at the front of the array (unshiftObject).
pushObject_AtFront(map, item) ==
  LET m == mapGet(map, constructorOf(item))
  IN [i \in 1..Len(m) |->
        IF m[i].key = constructorOf(item)
        THEN [key |-> m[i].key, value |-> <<item>> \o m[i].value]
        ELSE m[i]]

\* map.get(item.constructor).pushObject(item)
pushObject(map, item) ==
  LET m == mapGet(map, constructorOf(item))
  IN [i \in 1..Len(m) |->
        IF m[i].key = constructorOf(item)
        THEN [key |-> m[i].key, value |-> Append(m[i].value, item)]
        ELSE m[i]]

RECURSIVE groupByTypeFrom(_, _, _)
groupByTypeFrom(enumerable, i, map) ==
  IF i > Len(enumerable) THEN map
  ELSE groupByTypeFrom(enumerable, i + 1, pushObject(map, enumerable[i]))

groupByType(enumerable) == groupByTypeFrom(enumerable, 1, <<>>)

\* ------------------------------------------------------------------ commit
\* The shouldCommit hook: the base class answers true; a concrete adapter may
\* override it (hook).
shouldCommit(record, rel) == hook[record]

\* The loop over commitDetails.updated: the records kept for the update
\* batch and the calls made while filtering.
\* As filterUpdated, with the else branch lost: a record reported to the store
\* is queued all the same.
RECURSIVE filterUpdated_QueuesReported(_, _, _, _)
filterUpdated_QueuesReported(st, list, i, acc) ==
  IF i > Len(list) THEN acc
  ELSE LET record == list[i] IN
    IF ~isDirty[record]
    THEN LET asked == Append(acc.calls, Call("shouldCommit", NoStore, None, record, <<>>)) IN
         IF ~shouldCommit(record, relationships)
         THEN filterUpdated_QueuesReported(st, list, i + 1,
                [updated |-> Append(acc.updated, record),
                 calls |-> Append(asked, Call("didUpdateRecord", st, None, record, <<>>))])
         ELSE filterUpdated_QueuesReported(st, list, i + 1,
                [updated |-> Append(acc.updated, record), calls |-> asked])
    ELSE filterUpdated_QueuesReported(st, list, i + 1,
           [updated |-> Append(acc.updated, record), calls |-> acc.calls])

\* As filterUpdated, without the isDirty test: the hook is consulted for every
\* record.
RECURSIVE filterUpdated_AsksAlways(_, _, _, _)
filterUpdated_AsksAlways(st, list, i, acc) ==
  IF i > Len(list) THEN acc
  ELSE LET record == list[i]
           asked == Append(acc.calls, Call("shouldCommit", NoStore, None, record, <<>>)) IN
    IF ~shouldCommit(record, relationships)
    THEN filterUpdated_AsksAlways(st, list, i + 1,
           [updated |-> acc.updated,
            calls |-> Append(asked, Call("didUpdateRecord", st, None, record, <<>>))])
    ELSE filterUpdated_AsksAlways(st, list, i + 1,
           [updated |-> Append(acc.updated, record), calls |-> asked])

RECURSIVE filterUpdated(_, _, _, _)
filterUpdated(st, list, i, acc) ==
  IF i > Len(list) THEN acc
  ELSE LET record == list[i] IN
    IF ~isDirty[record]
    THEN LET asked == Append(acc.calls, Call("shouldCommit", NoStore, None, record, <<>>)) IN
         IF ~shouldCommit(record, relationships)
         THEN filterUpdated(st, list, i + 1,
                [updated |-> acc.updated,
                 calls |-> Append(asked, Call("didUpdateRecord", st, None, record, <<>>))])
         ELSE filterUpdated(st, list, i + 1,
                [updated |-> Append(acc.updated, record), calls |-> asked])
    ELSE filterUpdated(st, list, i + 1,
           [updated |-> Append(acc.updated, record), calls |-> acc.calls])

RECURSIVE forEachCreate(_, _, _)
forEachCreate(st, map, i) ==
  IF i > Len(map) THEN <<>>
  ELSE createRecords(st, map[i].key, map[i].value) \o forEachCreate(st, map, i + 1)

RECURSIVE forEachUpdate(_, _, _)
forEachUpdate(st, map, i) ==
  IF i > Len(map) THEN <<>>
  ELSE updateRecords(st, map[i].key, map[i].value) \o forEachUpdate(st, map, i + 1)

RECURSIVE forEachDelete(_, _, _)
forEachDelete(st, map, i) ==
  IF i > Len(map) THEN <<>>
  ELSE deleteRecords(st, map[i].key, map[i].value) \o forEachDelete(st, map, i + 1)

\* As commit, with the delete phase ahead of the update phase.
commit_DeletesFirst(st, details, rel) ==
  LET f == filterUpdated(st, details.updated, 1, [updated |-> <<>>, calls |-> <<>>])
  IN f.calls
       \o forEachCreate(st, groupByType(details.created), 1)
       \o forEachDelete(st, groupByType(details.deleted), 1)
       \o forEachUpdate(st, groupByType(f.updated), 1)

\* As commit, grouping commitDetails.updated in place of the filtered array.
commit_GroupsUnfiltered(st, details, rel) ==
  LET f == filterUpdated(st, details.updated, 1, [updated |-> <<>>, calls |-> <<>>])
  IN f.calls
       \o forEachCreate(st, groupByType(details.created), 1)
       \o forEachUpdate(st, groupByType(details.updated), 1)
       \o forEachDelete(st, groupByType(details.deleted), 1)

\* As commit, with a barrier: a phase is issued only once the phases before it
\* have nothing outstanding, so the call returns after the first phase that
\* issued a request.
commit_Barrier(st, details, rel) ==
  LET f == filterUpdated(st, details.updated, 1, [updated |-> <<>>, calls |-> <<>>])
  IN f.calls \o
       (IF details.created # <<>> THEN forEachCreate(st, groupByType(details.created), 1)
        ELSE IF f.updated # <<>> THEN forEachUpdate(st, groupByType(f.updated), 1)
        ELSE forEachDelete(st, groupByType(details.deleted), 1))

commit(st, details, rel) ==
  LET f == filterUpdated(st, details.updated, 1, [updated |-> <<>>, calls |-> <<>>])
  IN f.calls
       \o forEachCreate(st, groupByType(details.created), 1)
       \o forEachUpdate(st, groupByType(f.updated), 1)
       \o forEachDelete(st, groupByType(details.deleted), 1)

\* ---------------------------------------------------------------- findMany
\* find is supplied by the concrete adapter (null in the base class); what it
\* returns, if anything, is its own business: here a handle on the request.
find(st, type, id) ==
  [calls |-> <<Call("find", st, type, id, <<>>)>>, ret |-> Returned(<<type, id>>)]

RECURSIVE findManyFrom(_, _, _, _)
findManyFrom(st, type, ids, i) ==
  IF i > Len(ids) THEN <<>>
  ELSE find(st, type, ids[i]).calls \o findManyFrom(st, type, ids, i + 1)

\* As findMany, returning what the find calls returned (ids.map).
findMany_ReturnsResults(st, type, ids) ==
  [calls |-> findManyFrom(st, type, ids, 1),
   ret |-> Returned([i \in 1..Len(ids) |-> find(st, type, ids[i]).ret])]

\* The function has no return statement: it returns undefined.
findMany(st, type, ids) ==
  [calls |-> findManyFrom(st, type, ids, 1), ret |-> Undefined]

\* ------------------------------------------------------------- materialize
\* A step applied to the record: record.materializeId(value),
\* record.materializeAttribute(name, value), ...
Step(fn, name, value) == [fn |-> fn, name |-> name, value |-> value]

\* The setters of the record (DS.Model).
record_materializeId(rec, id) == [rec EXCEPT !.id = id]
record_materializeAttribute(rec, name, value) == [rec EXCEPT !.data[name] = value]
record_materializeHasMany(rec, name, value) == [rec EXCEPT !.data[name] = value]
record_materializeBelongsTo(rec, name, value) == [rec EXCEPT !.data[name] = value]

\* The names that the record's type declares, in declaration order.
FieldSeq == [i \in 1..NFields |-> i]
IsAttribute(name) == schema[name] = "attribute"
IsAssociation(name) == schema[name] \in {"hasMany", "belongsTo"}
eachAttribute == SelectSeq(FieldSeq, IsAttribute)
associationsByName == SelectSeq(FieldSeq, IsAssociation)

extractId(type, h) == h.id

\* The adapter's methods take and return [record, calls]: the record so far
\* and the steps applied so far.
materializeId(m, h) ==
  LET id == extractId(schema, h)
  IN [record |-> record_materializeId(m.record, id),
      calls |-> Append(m.calls, Step("materializeId", None, id))]

\* As materializeAttribute, adding the raw value to the value the record has
\* (+= for =).
materializeAttribute_Accumulates(m, h, name) ==
  [record |-> record_materializeAttribute(m.record, name,
                m.record.data[name] + h.data[name]),
   calls |-> Append(m.calls, Step("materializeAttribute", name,
                m.record.data[name] + h.data[name]))]

materializeAttribute(m, h, name) ==
  [record |-> record_materializeAttribute(m.record, name, h.data[name]),
   calls |-> Append(m.calls, Step("materializeAttribute", name, h.data[name]))]

RECURSIVE materializeAttributesFrom(_, _, _)
materializeAttributesFrom(m, h, i) ==
  IF i > Len(eachAttribute) THEN m
  ELSE materializeAttributesFrom(materializeAttribute(m, h, eachAttribute[i]), h, i + 1)

materializeAttributes(m, h) == materializeAttributesFrom(m, h, 1)

materializeHasMany(m, h, name) ==
  [record |-> record_materializeHasMany(m.record, name, h.data[name]),
   calls |-> Append(m.calls, Step("materializeHasMany", name, h.data[name]))]

materializeBelongsTo(m, h, name) ==
  [record |-> record_materializeBelongsTo(m.record, name, h.data[name]),
   calls |-> Append(m.calls, Step("materializeBelongsTo", name, h.data[name]))]

RECURSIVE materializeAssociationsFrom(_, _, _)
materializeAssociationsFrom(m, h, i) ==
  IF i > Len(associationsByName) THEN m
  ELSE LET name == associationsByName[i] IN
    IF schema[name] = "hasMany"
    THEN materializeAssociationsFrom(materializeHasMany(m, h, name), h, i + 1)
    ELSE IF schema[name] = "belongsTo"
    THEN materializeAssociationsFrom(materializeBelongsTo(m, h, name), h, i + 1)
    ELSE materializeAssociationsFrom(m, h, i + 1)

\* As materialize, with the associations ahead of the attributes.
materialize_AssociationsFirst(rec, h) ==
  materializeAttributes(
    materializeAssociationsFrom(materializeId([record |-> rec, calls |-> <<>>], h), h, 1), h)

materialize(rec, h) ==
  materializeAssociationsFrom(
    materializeAttributes(materializeId([record |-> rec, calls |-> <<>>], h), h), h, 1)

\* ------------------------------------------------- specification of commit
CommitInputs ==
  {d \in [created : OrderedSets(Records, MaxCommit),
          updated : OrderedSets(Records, MaxCommit),
          deleted : OrderedSets(Records, MaxCommit)] :
     /\ Len(d.created) + Len(d.updated) + Len(d.deleted) <= MaxCommit
     /\ Range(d.created) \cap Range(d.updated) = {}
     /\ Range(d.created) \cap Range(d.deleted) = {}
     /\ Range(d.updated) \cap Range(d.deleted) = {}}

NoCommit == [created |-> <<>>, updated |-> <<>>, deleted |-> <<>>]
FreshRecord == [id |-> None, data |-> [name \in Fields |-> None]]

\* The part of the state that an operation on its own does not use.
CommitIdle ==
  /\ commitDetails = NoCommit
  /\ isDirty = [r \in Records |-> FALSE]
  /\ hook = [r \in Records |-> TRUE]
  /\ completed = <<>>

MaterializeIdle ==
  /\ schema = [name \in Fields |-> "undeclared"]
  /\ hash = FreshRecord
  /\ recordState = FreshRecord
  /\ once = FreshRecord
  /\ times = 0

\* Created and deleted records are dirty, a record outside the commit is
\* clean; an updated record is dirty, or clean with a changed relationship.
\* The hook is consulted for updated records only, so it varies over those.
Init ==
  /\ pc = "idle"
  /\ commitDetails \in CommitInputs
  /\ isDirty \in {f \in [Records -> BOOLEAN] :
        \A r \in Records :
          /\ r \in Range(commitDetails.created) \cup Range(commitDetails.deleted) => f[r]
          /\ r \notin Range(commitDetails.created) \cup Range(commitDetails.updated)
                        \cup Range(commitDetails.deleted) => ~f[r]}
  /\ hook \in {f \in [Records -> BOOLEAN] :
        \A r \in Records : r \notin Range(commitDetails.updated) => f[r]}
  /\ calls = <<>>
  /\ completed = <<>>
  /\ args = None
  /\ ret = Undefined
  /\ MaterializeIdle

Commit ==
  /\ pc = "idle"
  /\ pc' = "commit"
  /\ calls' = commit(store, commitDetails, relationships)
  /\ UNCHANGED <<commitVars, args, ret, materializeVars>>

IsRequest(c) == c.fn \in {"createRecord", "updateRecord", "deleteRecord"}

InFlight == {i \in 1..Len(calls) : IsRequest(calls[i])} \ Range(completed)

\* The backend answers a request that is in flight.
Complete(i) ==
  /\ pc = "commit"
  /\ i \in InFlight
  /\ completed' = Append(completed, i)
  /\ UNCHANGED <<pc, commitDetails, isDirty, hook, calls, args, ret, materializeVars>>

Next ==
  \/ Commit
  \/ \E i \in 1..(3 * MaxCommit) : Complete(i)

Spec == Init /\ [][Next]_vars

\* ------------------------------------------------------ claims on commit
CallIndices(fn) == {i \in 1..Len(calls) : calls[i].fn = fn}
Called(fn, st, type, rec) ==
  \E i \in 1..Len(calls) : calls[i] = Call(fn, st, type, rec, <<>>)
InSomeUpdateRecords(rec) ==
  \E i \in CallIndices("updateRecords") : rec \in Range(calls[i].records)

\* A record of commitDetails.updated that the filter keeps.
Survives(rec) == isDirty[rec] \/ hook[rec]
Survivors == SelectSeq(commitDetails.updated, Survives)

\* C1: a clean record of commitDetails.updated for which shouldCommit answers
\* false is reported with store.didUpdateRecord and is in the array of no
\* updateRecords call of the commit.
C1_CleanRefusedIsReported ==
  pc = "commit" =>
    \A rec \in Range(commitDetails.updated) :
      (~isDirty[rec] /\ ~hook[rec]) =>
        /\ Called("didUpdateRecord", store, None, rec)
        /\ ~InSomeUpdateRecords(rec)

C1_Witness ==
  /\ pc = "commit"
  /\ \E rec \in Range(commitDetails.updated) : ~isDirty[rec] /\ ~hook[rec]
  /\ CallIndices("updateRecords") # {}

\* C2: a dirty record of commitDetails.updated is in the array of an
\* updateRecords call whatever the hook would answer; shouldCommit is not
\* invoked for it and store.didUpdateRecord is not called for it.
C2_DirtyIsQueuedUnasked ==
  pc = "commit" =>
    \A rec \in Range(commitDetails.updated) :
      isDirty[rec] =>
        /\ InSomeUpdateRecords(rec)
        /\ ~Called("shouldCommit", NoStore, None, rec)
        /\ ~Called("didUpdateRecord", store, None, rec)

C2_Witness ==
  /\ pc = "commit"
  /\ \E r1, r2 \in Range(commitDetails.updated) :
       /\ isDirty[r1] /\ ~hook[r1]
       /\ isDirty[r2] /\ hook[r2]

\* C3: the batched calls of one commit are ordered createRecords, then
\* updateRecords, then deleteRecords; inside a phase the calls follow the
\* first-seen order of the types in the collection grouped for that phase
\* (created, the filtered updated records, deleted).
Phase(fn) == CASE fn = "createRecords" -> 1 [] fn = "updateRecords" -> 2
               [] fn = "deleteRecords" -> 3 [] OTHER -> 0
PhaseCollection(n) == CASE n = 1 -> commitDetails.created [] n = 2 -> Survivors
                        [] OTHER -> commitDetails.deleted
Occurs(coll, type) == \E k \in 1..Len(coll) : constructorOf(coll[k]) = type
FirstSeen(coll, type) ==
  CHOOSE k \in 1..Len(coll) :
    /\ constructorOf(coll[k]) = type
    /\ \A m \in 1..(k - 1) : constructorOf(coll[m]) # type
BatchIndices == {i \in 1..Len(calls) : Phase(calls[i].fn) # 0}

C3_PhasesInOrder ==
  pc = "commit" =>
    \A i, j \in BatchIndices :
      i < j =>
        /\ Phase(calls[i].fn) <= Phase(calls[j].fn)
        /\ Phase(calls[i].fn) = Phase(calls[j].fn) =>
             LET coll == PhaseCollection(Phase(calls[i].fn)) IN
               /\ Occurs(coll, calls[i].type)
               /\ Occurs(coll, calls[j].type)
               /\ FirstSeen(coll, calls[i].type) < FirstSeen(coll, calls[j].type)

C3_Witness ==
  /\ pc = "commit"
  /\ CallIndices("createRecords") # {}
  /\ CallIndices("updateRecords") # {}
  /\ CallIndices("deleteRecords") # {}

\* C4: with created and deleted empty, commit calls updateRecords once for
\* each type that has a record surviving the filter, not at all for a
\* type all of whose records were filtered out, and calls neither
\* createRecords nor deleteRecords.
C4_OneUpdateRecordsPerType ==
  (pc = "commit" /\ commitDetails.created = <<>> /\ commitDetails.deleted = <<>>) =>
    /\ \A type \in Types :
         Cardinality({i \in CallIndices("updateRecords") : calls[i].type = type})
           = IF Occurs(Survivors, type) THEN 1 ELSE 0
    /\ CallIndices("createRecords") = {}
    /\ CallIndices("deleteRecords") = {}

C4_Witness ==
  /\ pc = "commit" /\ commitDetails.created = <<>> /\ commitDetails.deleted = <<>>
  /\ \E t1, t2 \in Types :
       /\ Occurs(commitDetails.updated, t1) /\ ~Occurs(Survivors, t1)
       /\ Cardinality({k \in 1..Len(Survivors) : constructorOf(Survivors[k]) = t2}) = 2

\* C10: commit returns with the requests of all three phases issued, none of
\* them having been waited for, and every request in flight can complete
\* next, whatever its phase and whatever else is still in flight.
RequestOf(phase) == CASE phase = 1 -> "createRecord" [] phase = 2 -> "updateRecord"
                      [] OTHER -> "deleteRecord"
C10_NoBarrier ==
  pc = "commit" =>
    /\ \A phase \in 1..3 :
         \A rec \in Range(PhaseCollection(phase)) :
           Called(RequestOf(phase), store, constructorOf(rec), rec)
    /\ \A i \in InFlight : ENABLED Complete(i)

\* A deleteRecord request has completed while a createRecord request issued
\* before it is still in flight.
C10_Witness ==
  /\ pc = "commit"
  /\ \E i \in InFlight, j \in Range(completed) :
       /\ i < j
       /\ calls[i].fn = "createRecord"
       /\ calls[j].fn = "deleteRecord"

\* -------------------------------------------- specification of groupByType
Enumerables == UNION {[1..n -> Records] : n \in 0..MaxLen}

InitGroup ==
  /\ pc = "idle"
  /\ args \in [enumerable : Enumerables]
  /\ ret = Undefined
  /\ calls = <<>>
  /\ CommitIdle
  /\ MaterializeIdle

GroupByType ==
  /\ pc = "idle"
  /\ pc' = "groupByType"
  /\ ret' = Returned(groupByType(args.enumerable))
  /\ UNCHANGED <<args, calls, commitVars, materializeVars>>

NextGroup == GroupByType

SpecGroup == InitGroup /\ [][NextGroup]_vars

\* ------------------------------------------------- claims on groupByType
\* C5: the keys of groupByType(C) are the types of the records of C, each
\* once, in first-seen order; the group of a type is the subsequence of C of
\* the records of that type, so that every record of C is in exactly one
\* group, its own type's, and the groups together are C.
RECURSIVE TotalLen(_, _)
TotalLen(map, i) == IF i > Len(map) THEN 0 ELSE Len(map[i].value) + TotalLen(map, i + 1)

C5_GroupsPartition ==
  pc = "groupByType" =>
    LET C == args.enumerable
        map == ret.value
    IN /\ {map[i].key : i \in 1..Len(map)} = {constructorOf(C[k]) : k \in 1..Len(C)}
       /\ \A i, j \in 1..Len(map) :
            i < j => /\ map[i].key # map[j].key
                     /\ FirstSeen(C, map[i].key) < FirstSeen(C, map[j].key)
       /\ \A i \in 1..Len(map) :
            map[i].value = SelectSeq(C, LAMBDA x : constructorOf(x) = map[i].key)
       /\ \A rec \in Range(C) :
            {i \in 1..Len(map) : rec \in Range(map[i].value)}
              = {i \in 1..Len(map) : map[i].key = constructorOf(rec)}
       /\ TotalLen(map, 1) = Len(C)

\* The types are first seen in descending order and the records of the second
\* group are not adjacent in C.
C5_Witness ==
  /\ pc = "groupByType"
  /\ Len(ret.value) = 2
  /\ ret.value[1].key > ret.value[2].key
  /\ \E k \in 2..(Len(args.enumerable) - 1) :
       /\ constructorOf(args.enumerable[k]) = ret.value[1].key
       /\ constructorOf(args.enumerable[k - 1]) = ret.value[2].key
       /\ constructorOf(args.enumerable[k + 1]) = ret.value[2].key
       /\ args.enumerable[k - 1] # args.enumerable[k + 1]

\* ------------------- specification of the batched methods and of findMany
InitBatch ==
  /\ pc = "idle"
  /\ args \in [type : Types, records : Enumerables]
  /\ ret = Undefined
  /\ calls = <<>>
  /\ CommitIdle
  /\ MaterializeIdle

CreateRecords ==
  /\ pc = "idle"
  /\ pc' = "createRecords"
  /\ calls' = createRecords(store, args.type, args.records)
  /\ UNCHANGED <<args, ret, commitVars, materializeVars>>

UpdateRecords ==
  /\ pc = "idle"
  /\ pc' = "updateRecords"
  /\ calls' = updateRecords(store, args.type, args.records)
  /\ UNCHANGED <<args, ret, commitVars, materializeVars>>

DeleteRecords ==
  /\ pc = "idle"
  /\ pc' = "deleteRecords"
  /\ calls' = deleteRecords(store, args.type, args.records)
  /\ UNCHANGED <<args, ret, commitVars, materializeVars>>

\* args.records are the ids.
FindMany ==
  /\ pc = "idle"
  /\ pc' = "findMany"
  /\ calls' = findMany(store, args.type, args.records).calls
  /\ ret' = findMany(store, args.type, args.records).ret
  /\ UNCHANGED <<args, commitVars, materializeVars>>

NextBatch ==
  \/ CreateRecords
  \/ UpdateRecords
  \/ DeleteRecords
  \/ FindMany

SpecBatch == InitBatch /\ [][NextBatch]_vars

\* ------------------------- claims on the batched methods and on findMany
PrimitiveOf(fn) == CASE fn = "createRecords" -> "createRecord"
                     [] fn = "updateRecords" -> "updateRecord"
                     [] OTHER -> "deleteRecord"

\* C6: a default batched method called with (store, type, records) calls its
\* single-record primitive once per element of records, in order, each time
\* with (store, type, record), and calls nothing when records is empty.
C6_OnePrimitivePerRecord ==
  pc \in {"createRecords", "updateRecords", "deleteRecords"} =>
    LET made == SubSeq(calls, 2, Len(calls))
    IN /\ Len(made) = Len(args.records)
       /\ \A k \in 1..Len(made) :
            made[k] = [fn |-> PrimitiveOf(pc), store |-> store, type |-> args.type,
                       record |-> args.records[k], records |-> <<>>]

\* createRecords with two different records, in descending order, the first
\* of them of another type than the type argument.
C6_Witness ==
  /\ pc = "createRecords"
  /\ Len(args.records) >= 2
  /\ args.records[1] > args.records[2]
  /\ constructorOf(args.records[1]) # args.type
  /\ Len(calls) = 1 + Len(args.records)

\* C7: the default findMany(store, type, ids) calls find once per element of
\* ids, in order, each time with (store, type, id), and returns nothing.
C7_OneFindPerId ==
  pc = "findMany" =>
    /\ Len(calls) = Len(args.records)
    /\ \A k \in 1..Len(calls) :
         calls[k] = [fn |-> "find", store |-> store, type |-> args.type,
                     record |-> args.records[k], records |-> <<>>]
    /\ ~ret.defined

C7_Witness ==
  /\ pc = "findMany"
  /\ Len(args.records) = 3
  /\ args.records[1] < args.records[2] /\ args.records[2] < args.records[3]
  /\ Len(calls) = 3

\* -------------------------------------------- specification of materialize
\* A payload: an id and a value per field name, None where the payload lacks
\* the key (hash[name] is undefined).
Payloads == [id : Values \cup {None}, data : [Fields -> Values \cup {None}]]

InitMaterialize ==
  /\ pc = "idle"
  /\ schema \in [Fields -> {"attribute", "hasMany", "belongsTo", "undeclared"}]
  /\ hash = FreshRecord
  /\ recordState = FreshRecord
  /\ once = FreshRecord
  /\ times = 0
  /\ calls = <<>>
  /\ args = None
  /\ ret = Undefined
  /\ CommitIdle

\* A payload arrives and is materialized onto the record.
Materialize(h) ==
  /\ pc' = "materialize"
  /\ hash' = h
  /\ LET m == materialize(recordState, h)
     IN recordState' = m.record /\ calls' = m.calls
  /\ once' = recordState'
  /\ times' = 1
  /\ UNCHANGED <<schema, args, ret, commitVars>>

\* The same payload is materialized again.
Rematerialize ==
  /\ pc = "materialize"
  /\ times = 1
  /\ LET m == materialize(recordState, hash)
     IN recordState' = m.record /\ calls' = m.calls
  /\ times' = 2
  /\ UNCHANGED <<pc, hash, once, schema, args, ret, commitVars>>

NextMaterialize ==
  \/ \E h \in Payloads : Materialize(h)
  \/ Rematerialize

SpecMaterialize == InitMaterialize /\ [][NextMaterialize]_vars

\* ------------------------------------------------- claims on materialize
\* C8: materializing the same payload twice leaves the record as it was after
\* materializing it once, also when the payload lacks declared names.
C8_Idempotent == times = 2 => recordState = once

\* The payload lacks a declared attribute and carries a declared association,
\* and it has been materialized twice.
C8_Witness ==
  /\ times = 2
  /\ \E n1, n2 \in Fields :
       /\ schema[n1] = "attribute" /\ hash.data[n1] = None
       /\ IsAssociation(n2) /\ hash.data[n2] # None

\* C9: the steps of materialize are: the identifier, with extractId(type,
\* hash) = hash.id; then one materializeAttribute per declared attribute with
\* hash[name]; then per declared association one materializeHasMany or one
\* materializeBelongsTo, by its kind, with hash[name].
AssociationStep(name) ==
  IF schema[name] = "hasMany" THEN "materializeHasMany" ELSE "materializeBelongsTo"

C9_StepsInOrder ==
  pc = "materialize" =>
    LET attributes == {name \in Fields : schema[name] = "attribute"}
        associations == {name \in Fields : schema[name] \in {"hasMany", "belongsTo"}}
        nA == Cardinality(attributes)
    IN /\ Len(calls) = 1 + nA + Cardinality(associations)
       /\ calls[1] = Step("materializeId", None, hash.id)
       /\ \A name \in attributes :
            Cardinality({k \in 2..(1 + nA) :
              calls[k] = Step("materializeAttribute", name, hash.data[name])}) = 1
       /\ \A name \in associations :
            Cardinality({k \in (2 + nA)..Len(calls) :
              calls[k] = Step(AssociationStep(name), name, hash.data[name])}) = 1

\* An association is declared under a name ahead of an attribute's name.
C9_Witness ==
  /\ pc = "materialize"
  /\ hash.id # None
  /\ \E n1, n2 \in Fields :
       /\ n1 < n2
       /\ IsAssociation(n1)
       /\ schema[n2] = "attribute"
       /\ hash.data[n1] # hash.data[n2]

====
